---------------------------- MODULE Spec2Model ----------------------------
(***************************************************************************)
(* A model of the SoX flanger effect (src/src/flanger.c): the getopts,     *)
(* start, flow and stop handlers of one effect instance, driven by a host  *)
(* that calls getopts, start and stop in this order and flow at any time:  *)
(* the handlers themselves check no order.                                 *)
(*                                                                         *)
(* C doubles are modelled as exact rationals <<n, d>> (d > 0, lowest       *)
(* terms): the rounding error of IEEE arithmetic is not modelled.  Samples *)
(* are signed integers of SampleBits bits instead of 32.                   *)
(***************************************************************************)
EXTENDS Integers, Sequences, FiniteSets, TLC

(***************************************************************************)
(* Bounds of the model.                                                    *)
(***************************************************************************)
\* Frames one instance processes over all its flow calls, where the host
\* tries many configurations (Spec) and where it streams longer (SpecStream).
MaxFrames == 2
MaxStreamFrames == 5
\* Width of a sample in bits (sox_ssample_t is 32 bits wide).
SampleBits == 4

(***************************************************************************)
(* Exact rational arithmetic standing for the C double operations.         *)
(***************************************************************************)
RECURSIVE GCD(_, _)
GCD(a, b) == IF b = 0 THEN a ELSE GCD(b, a % b)

Abs(n) == IF n < 0 THEN -n ELSE n

Min(a, b) == IF a > b THEN b ELSE a

Rat(n, d) ==
  LET s == IF d < 0 THEN -1 ELSE 1
      g == GCD(Abs(n), Abs(d))
  IN  <<(s * n) \div g, (s * d) \div g>>

\* The conversion of an integer to double.
Dbl(n) == <<n, 1>>

Zero == Dbl(0)

Half == <<1, 2>>

\* The sums and products divide by common factors first, so that no
\* intermediate value is larger than the operands and the result need.
RAdd(a, b) ==
  LET g == GCD(a[2], b[2])
  IN  Rat(a[1] * (b[2] \div g) + b[1] * (a[2] \div g), (a[2] \div g) * b[2])

RNeg(a) == <<-a[1], a[2]>>

RSub(a, b) == RAdd(a, RNeg(b))

RMul(a, b) ==
  LET g1 == GCD(Abs(a[1]), b[2])
      g2 == GCD(Abs(b[1]), a[2])
  IN  Rat((a[1] \div g1) * (b[1] \div g2), (a[2] \div g2) * (b[2] \div g1))

\* a / b for b # 0.
RDiv(a, b) ==
  RMul(a, IF b[1] < 0 THEN <<-b[2], -b[1]>> ELSE <<b[2], b[1]>>)

RLt(a, b) == RSub(a, b)[1] < 0

RLe(a, b) == RSub(a, b)[1] <= 0

\* fabs()
Fabs(a) == <<Abs(a[1]), a[2]>>

\* The conversion of a double to an integer type: truncation toward zero.
Trunc(a) == IF a[1] >= 0 THEN a[1] \div a[2] ELSE -((-a[1]) \div a[2])

(***************************************************************************)
(* Program constants.                                                      *)
(***************************************************************************)
INTERP_LINEAR == 0
INTERP_QUADRATIC == 1
SOX_WAVE_SINE == 0
SOX_WAVE_TRIANGLE == 1
MAX_CHANNELS == 4

SOX_SUCCESS == "SOX_SUCCESS"
SOX_EOF == "SOX_EOF"
NULL == 0

SOX_SAMPLE_MAX == 2 ^ (SampleBits - 1) - 1
SOX_SAMPLE_MIN == -(2 ^ (SampleBits - 1))

\* interp_enum and sox_wave_enum: the keyword of each enumeration value.
interp_enum == [linear |-> INTERP_LINEAR, quadratic |-> INTERP_QUADRATIC]
sox_wave_enum == [sine |-> SOX_WAVE_SINE, triangle |-> SOX_WAVE_TRIANGLE]

(***************************************************************************)
(* State.                                                                  *)
(*   f      struct flanger, the instance's private data                    *)
(*   effp   the host's side of the effect: ininfo.channels, ininfo.rate    *)
(*          and the clip counter                                           *)
(*   heap   the allocator: mem[p] is the block at pointer p, live the set  *)
(*          of blocks not yet freed, frees[p] how often p was freed        *)
(*   phase  where the host stands in the effect's lifecycle                *)
(*   call   the last handler call: its arguments, results and, for flow,   *)
(*          the values of the loop's locals per processed sample (obs)     *)
(*   frames frames processed since start                                   *)
(*   stream the started instance and what it has processed since: the      *)
(*          instance and the memory as start left them, the samples read   *)
(*          and written by all flow calls and the locals per sample        *)
(***************************************************************************)
VARIABLES f, effp, heap, phase, call, frames, stream

vars == <<f, effp, heap, phase, call, frames, stream>>

\* The private data as sox_create_effect leaves it, and as memset leaves it.
ZeroFlanger ==
  [delay_min |-> Zero, delay_depth |-> Zero, feedback_gain |-> Zero,
   delay_gain |-> Zero, speed |-> Zero, wave_shape |-> 0,
   channel_phase |-> Zero, interpolation |-> 0,
   delay_bufs |-> [c \in 0..(MAX_CHANNELS - 1) |-> NULL],
   delay_buf_length |-> 0, delay_buf_pos |-> 0,
   delay_last |-> [c \in 0..(MAX_CHANNELS - 1) |-> Zero],
   lfo |-> NULL, lfo_length |-> 0, lfo_pos |-> 0,
   in_gain |-> Zero]

\* The parameter fields of struct flanger.
ParamFields ==
  {"delay_min", "delay_depth", "feedback_gain", "delay_gain", "speed",
   "wave_shape", "channel_phase", "interpolation"}

Params(s) == [k \in ParamFields |-> s[k]]

NoCall == [op |-> "none", ret |-> SOX_SUCCESS, isamp_in |-> 0, osamp_in |-> 0,
           isamp |-> 0, osamp |-> 0, nread |-> 0, obuf |-> <<>>,
           obs |-> <<>>, pre |-> ZeroFlanger, heap_pre |-> 0]

NoStream == [f |-> ZeroFlanger, mem |-> <<>>, ibuf |-> <<>>, obuf |-> <<>>,
             obs |-> <<>>]

(***************************************************************************)
(* getopts.  An argument is a token: a number [kind |-> "num", v |-> r]    *)
(* or a keyword [kind |-> "txt", v |-> s].                                 *)
(***************************************************************************)
Num(n, d) == [kind |-> "num", v |-> Rat(n, d)]

Txt(s) == [kind |-> "txt", v |-> s]

\* The parameters in the order getopts reads them, with their ranges.
ParamTable ==
  <<[p |-> "delay_min", kind |-> "num", min |-> Dbl(0), max |-> Dbl(10)],
    [p |-> "delay_depth", kind |-> "num", min |-> Dbl(0), max |-> Dbl(10)],
    [p |-> "feedback_gain", kind |-> "num", min |-> Dbl(-95), max |-> Dbl(95)],
    [p |-> "delay_gain", kind |-> "num", min |-> Dbl(0), max |-> Dbl(100)],
    [p |-> "speed", kind |-> "num", min |-> Rat(1, 10), max |-> Dbl(10)],
    [p |-> "wave_shape", kind |-> "txt", enum |-> sox_wave_enum],
    [p |-> "channel_phase", kind |-> "num", min |-> Dbl(0), max |-> Dbl(100)],
    [p |-> "interpolation", kind |-> "txt", enum |-> interp_enum]>>

\* NUMERIC_PARAMETER and TEXTUAL_PARAMETER, from parameter i on: with no
\* argument left the block is left (break); a number out of range fails; an
\* argument of the other kind is left for the next parameter.
RECURSIVE ParseParameters(_, _, _)
ParseParameters(i, argv, p) ==
  IF i > Len(ParamTable) \/ argv = <<>>
  THEN [fail |-> FALSE, argv |-> argv, p |-> p]
  ELSE LET e == ParamTable[i]
           tok == Head(argv)
       IN  IF e.kind = "num"
           THEN IF tok.kind = "num"
                THEN IF RLt(tok.v, e.min) \/ RLt(e.max, tok.v)
                     THEN [fail |-> TRUE, argv |-> argv, p |-> p]
                     ELSE ParseParameters(i + 1, Tail(argv),
                                          [p EXCEPT ![e.p] = tok.v])
                ELSE ParseParameters(i + 1, argv, p)
           ELSE IF tok.kind = "txt" /\ tok.v \in DOMAIN e.enum
                THEN ParseParameters(i + 1, Tail(argv),
                                     [p EXCEPT ![e.p] = e.enum[tok.v]])
                ELSE ParseParameters(i + 1, argv, p)

\* The non-zero defaults getopts sets first.
SetDefaults(p) ==
  [p EXCEPT !.delay_depth = Dbl(2), !.delay_gain = Dbl(71),
            !.speed = Rat(1, 2), !.channel_phase = Dbl(25)]

sox_flanger_getopts(argv) ==
  LET r == ParseParameters(1, argv, SetDefaults(f))
  IN  /\ phase = "Unconfigured"
      /\ f' = r.p
      /\ IF r.fail \/ r.argv # <<>>
         THEN /\ phase' = "Failed"
              /\ call' = [NoCall EXCEPT !.op = "getopts", !.ret = SOX_EOF,
                                        !.pre = f]
         ELSE /\ phase' = "Configured"
              /\ call' = [NoCall EXCEPT !.op = "getopts", !.pre = f]
      /\ UNCHANGED <<effp, heap, frames, stream>>

(***************************************************************************)
(* The allocator.                                                          *)
(***************************************************************************)
\* xcalloc(n, size): a fresh zeroed block of n elements; the pointer is the
\* block's index in mem.
xcalloc(h, n) ==
  [h EXCEPT !.mem = Append(h.mem, [i \in 1..n |-> Zero]),
            !.live = h.live \cup {Len(h.mem) + 1},
            !.frees = Append(h.frees, 0)]

\* The pointer the next xcalloc returns.
NextPtr(h) == Len(h.mem) + 1

\* free(p): nothing for a null pointer.
free(h, p) ==
  IF p = NULL THEN h
  ELSE [h EXCEPT !.live = h.live \ {p}, !.frees[p] = h.frees[p] + 1,
                 !.mem[p] = <<>>]

(***************************************************************************)
(* sox_generate_wave_table, the host's wave table generator.  The sine is  *)
(* replaced by the parabolic arcs 16x(1/2 - x), which agree with it at the *)
(* quarter points and keep the table rational.                             *)
(***************************************************************************)
SineArc(x) ==
  IF RLe(x, Half)
  THEN RMul(Dbl(16), RMul(x, RSub(Half, x)))
  ELSE RSub(Zero, RMul(Dbl(16), RMul(RSub(x, Half), RSub(Dbl(1), x))))

WavePoint(wave_type, point, table_size) ==
  IF wave_type = SOX_WAVE_SINE
  THEN RDiv(RAdd(SineArc(Rat(point, table_size)), Dbl(1)), Dbl(2))
  ELSE LET d == Rat(point * 2, table_size)
           quarter == (4 * point) \div table_size
       IN  IF quarter = 0 THEN RAdd(d, Half)
           ELSE IF quarter = 3 THEN RSub(d, Rat(3, 2))
           ELSE RSub(Rat(3, 2), d)

\* The table of table_size values in [min, max]; the phase is given in
\* quarter turns (3 for 3 * M_PI_2).
sox_generate_wave_table(wave_type, table_size, min, max, quarters) ==
  LET phase_offset == Trunc(RAdd(RMul(Rat(quarters, 4), Dbl(table_size)), Half))
  IN  [t \in 1..table_size |->
         RAdd(RMul(WavePoint(wave_type, ((t - 1) + phase_offset) % table_size,
                             table_size),
                   RSub(max, min)),
              min)]

(***************************************************************************)
(* start.                                                                  *)
(***************************************************************************)
\* BalanceGains scaling the delay to seconds as well.
BalanceGainsAndDelay(s) ==
  LET feedback_gain == RDiv(s.feedback_gain, Dbl(100))
      delay_gain == RDiv(s.delay_gain, Dbl(100))
  IN  [s EXCEPT !.feedback_gain = feedback_gain,
                !.channel_phase = RDiv(s.channel_phase, Dbl(100)),
                !.delay_min = RDiv(s.delay_min, Dbl(1000)),
                !.in_gain = RDiv(Dbl(1), RAdd(Dbl(1), delay_gain)),
                !.delay_gain = RMul(RDiv(delay_gain, RAdd(Dbl(1), delay_gain)),
                                    RSub(Dbl(1), Fabs(feedback_gain)))]

\* BalanceGains without the balance of the feedback loop.
BalanceGainsOpenLoop(s) ==
  LET delay_gain == RDiv(s.delay_gain, Dbl(100))
  IN  [s EXCEPT !.feedback_gain = RDiv(s.feedback_gain, Dbl(100)),
                !.channel_phase = RDiv(s.channel_phase, Dbl(100)),
                !.in_gain = RDiv(Dbl(1), RAdd(Dbl(1), delay_gain)),
                !.delay_gain = RDiv(delay_gain, RAdd(Dbl(1), delay_gain))]

\* Scale percentages to unity, balance output, balance feedback loop.
BalanceGains(s) ==
  LET feedback_gain == RDiv(s.feedback_gain, Dbl(100))
      delay_gain == RDiv(s.delay_gain, Dbl(100))
      channel_phase == RDiv(s.channel_phase, Dbl(100))
      in_gain == RDiv(Dbl(1), RAdd(Dbl(1), delay_gain))
      balanced == RDiv(delay_gain, RAdd(Dbl(1), delay_gain))
  IN  [s EXCEPT !.feedback_gain = feedback_gain,
                !.channel_phase = channel_phase,
                !.in_gain = in_gain,
                !.delay_gain = RMul(balanced,
                                    RSub(Dbl(1), Fabs(feedback_gain)))]

\* DelayBufLength without the slot of the quadratic interpolator.
DelayBufLengthShort(delay_min, delay_depth, rate) ==
  Trunc(RAdd(RMul(RDiv(RAdd(delay_min, delay_depth), Dbl(1000)), Dbl(rate)),
             Half)) + 1

\* The length of each delay buffer.
DelayBufLength(delay_min, delay_depth, rate) ==
  Trunc(RAdd(RMul(RDiv(RAdd(delay_min, delay_depth), Dbl(1000)), Dbl(rate)),
             Half)) + 1 + 1

\* LfoLength rounding to nearest, as the delay buffer length does.
LfoLengthRounded(rate, speed) == Trunc(RAdd(RDiv(Dbl(rate), speed), Half))

\* The length of the LFO table.
LfoLength(rate, speed) == Trunc(RDiv(Dbl(rate), speed))

\* The minimum delay in samples handed to the wave table generator.
LfoMin(delay_min, rate) ==
  Trunc(RAdd(RMul(RDiv(delay_min, Dbl(1000)), Dbl(rate)), Half))

\* LfoMax reaching the last slot.
LfoMaxLong(delay_buf_length) == delay_buf_length - 1

\* The maximum delay in samples handed to the wave table generator.
LfoMax(delay_buf_length) == delay_buf_length - 2

\* The delay buffers, one for each channel.
RECURSIVE CreateDelayBufs(_, _, _, _)
CreateDelayBufs(s, h, c, channels) ==
  IF c >= channels THEN [f |-> s, heap |-> h]
  ELSE CreateDelayBufs([s EXCEPT !.delay_bufs[c] = NextPtr(h)],
                       xcalloc(h, s.delay_buf_length), c + 1, channels)

\* TooManyChannels off by one.
TooManyChannelsOffByOne(channels) == channels > MAX_CHANNELS + 1

\* The check of the channel count that start makes first.
TooManyChannels(channels) == channels > MAX_CHANNELS

sox_flanger_start ==
  /\ phase = "Configured"
  /\ IF TooManyChannels(effp.channels)
     THEN /\ phase' = "Failed"
          /\ call' = [NoCall EXCEPT !.op = "start", !.ret = SOX_EOF,
                                    !.pre = f, !.heap_pre = Len(heap.mem)]
          /\ UNCHANGED <<f, heap, stream>>
     ELSE LET g == BalanceGains(f)
              len == DelayBufLength(g.delay_min, g.delay_depth, effp.rate)
              b == CreateDelayBufs([g EXCEPT !.delay_buf_length = len], heap,
                                   0, effp.channels)
              lfo_length == LfoLength(effp.rate, g.speed)
              h == xcalloc(b.heap, lfo_length)
              table == sox_generate_wave_table(
                         g.wave_shape, lfo_length,
                         Dbl(LfoMin(g.delay_min, effp.rate)),
                         Dbl(LfoMax(len)), 3)
          IN  /\ f' = [b.f EXCEPT !.lfo_length = lfo_length,
                                  !.lfo = NextPtr(b.heap)]
              /\ heap' = [h EXCEPT !.mem[NextPtr(b.heap)] = table]
              /\ phase' = "Ready"
              /\ stream' = [NoStream EXCEPT !.f = f', !.mem = heap'.mem]
              /\ call' = [NoCall EXCEPT !.op = "start", !.pre = f,
                                        !.heap_pre = Len(heap.mem)]
  /\ UNCHANGED <<effp, frames>>

(***************************************************************************)
(* flow.                                                                   *)
(***************************************************************************)
\* SOX_ROUND_CLIP_COUNT: round to the nearest sample, saturate and count.
RoundClipCount(d, clips) ==
  IF RLt(d, Zero)
  THEN IF RLe(d, RSub(Dbl(SOX_SAMPLE_MIN), Half))
       THEN [sample |-> SOX_SAMPLE_MIN, clips |-> clips + 1]
       ELSE [sample |-> Trunc(RSub(d, Half)), clips |-> clips]
  ELSE IF RLe(RAdd(Dbl(SOX_SAMPLE_MAX), Half), d)
       THEN [sample |-> SOX_SAMPLE_MAX, clips |-> clips + 1]
       ELSE [sample |-> Trunc(RAdd(d, Half)), clips |-> clips]

\* FlowLen with the output capacity forgotten.
FlowLenInputOnly(isamp, osamp, channels) == isamp \div channels

\* The number of frames a call processes.
FlowLen(isamp, osamp, channels) ==
  (IF isamp > osamp THEN osamp ELSE isamp) \div channels

\* RotatePos stepping forward.
RotatePosForward(delay_buf_pos, delay_buf_length) ==
  (delay_buf_pos + 1) % delay_buf_length

\* The write cursor of the next frame.
RotatePos(delay_buf_pos, delay_buf_length) ==
  (delay_buf_pos + delay_buf_length - 1) % delay_buf_length

\* AdvanceLfo stepping by two.
AdvanceLfoByTwo(lfo_pos, lfo_length) == (lfo_pos + 2) % lfo_length

\* The LFO cursor of the next frame.
AdvanceLfo(lfo_pos, lfo_length) == (lfo_pos + 1) % lfo_length

\* ChannelPhase scaled by the length of the delay buffers.
ChannelPhaseWrongLength(c, lfo_length, channel_phase) ==
  Trunc(RAdd(RMul(Dbl(c * f.delay_buf_length), channel_phase), Half))

\* ChannelPhase truncated instead of rounded.
ChannelPhaseTruncated(c, lfo_length, channel_phase) ==
  Trunc(RMul(Dbl(c * lfo_length), channel_phase))

\* The phase offset of channel c in the LFO table.
ChannelPhase(c, lfo_length, channel_phase) ==
  Trunc(RAdd(RMul(Dbl(c * lfo_length), channel_phase), Half))

\* The index at which channel c reads the LFO table.
LfoIndex(lfo_pos, c, lfo_length, channel_phase) ==
  (lfo_pos + ChannelPhase(c, lfo_length, channel_phase)) % lfo_length

\* The index of the tap at int_delay behind the write cursor.
TapIndex(delay_buf_pos, int_delay, delay_buf_length) ==
  (delay_buf_pos + int_delay) % delay_buf_length

\* InterpLinear with the two taps exchanged.
InterpLinearReversed(delayed_0, delayed_1, frac_delay) ==
  RAdd(delayed_1, RMul(RSub(delayed_0, delayed_1), frac_delay))

InterpLinear(delayed_0, delayed_1, frac_delay) ==
  RAdd(delayed_0, RMul(RSub(delayed_1, delayed_0), frac_delay))

InterpQuadratic(delayed_0, delayed_1, delayed_2, frac_delay) ==
  LET d2 == RSub(delayed_2, delayed_0)
      d1 == RSub(delayed_1, delayed_0)
      a == RSub(RMul(d2, Half), d1)
      b == RSub(RMul(d1, Dbl(2)), RMul(d2, Half))
  IN  RAdd(delayed_0, RMul(RAdd(RMul(a, frac_delay), b), frac_delay))

\* DelayInput with the feedback forgotten.
DelayInputDry(in, delay_last, feedback_gain) == Dbl(in)

\* The value written to the delay line.
DelayInput(in, delay_last, feedback_gain) ==
  RAdd(Dbl(in), RMul(delay_last, feedback_gain))

\* MixOutput with the two gains swapped.
MixOutputSwapped(in, delayed, in_gain, delay_gain) ==
  RAdd(RMul(Dbl(in), delay_gain), RMul(delayed, in_gain))

\* The mix of the dry and the delayed signal.
MixOutput(in, delayed, in_gain, delay_gain) ==
  RAdd(RMul(Dbl(in), in_gain), RMul(delayed, delay_gain))

\* DelayBuf with one buffer for all channels.
DelayBufShared(delay_bufs, c) == delay_bufs[0]

\* The delay buffer of channel c.
DelayBuf(delay_bufs, c) == delay_bufs[c]

\* The body of the channel loop for channel c.  s holds what the loop has
\* done so far: the instance s.f, the memory s.mem, the clip counter, the
\* samples read from ibuf, the samples written to obuf and the locals of
\* each sample processed.
FlowChannel(s, c, ibuf) ==
  LET g == s.f
      lfo_index == LfoIndex(g.lfo_pos, c, g.lfo_length, g.channel_phase)
      delay == s.mem[g.lfo][lfo_index + 1]
      int_delay == Trunc(delay)
      frac_delay == RSub(delay, Dbl(int_delay))
      in == ibuf[s.nread + 1]
      stored == DelayInput(in, g.delay_last[c], g.feedback_gain)
      buf == [s.mem[DelayBuf(g.delay_bufs, c)]
                EXCEPT ![g.delay_buf_pos + 1] = stored]
      i0 == TapIndex(g.delay_buf_pos, int_delay, g.delay_buf_length)
      i1 == TapIndex(g.delay_buf_pos, int_delay + 1, g.delay_buf_length)
      i2 == TapIndex(g.delay_buf_pos, int_delay + 2, g.delay_buf_length)
      delayed_0 == buf[i0 + 1]
      delayed_1 == buf[i1 + 1]
      delayed == IF g.interpolation = INTERP_LINEAR
                 THEN InterpLinear(delayed_0, delayed_1, frac_delay)
                 ELSE InterpQuadratic(delayed_0, delayed_1, buf[i2 + 1],
                                      frac_delay)
      out == MixOutput(in, delayed, g.in_gain, g.delay_gain)
      r == RoundClipCount(out, s.clips)
  IN  [f |-> [g EXCEPT !.delay_last[c] = delayed],
       mem |-> [s.mem EXCEPT ![DelayBuf(g.delay_bufs, c)] = buf],
       clips |-> r.clips,
       nread |-> s.nread + 1,
       obuf |-> Append(s.obuf, r.sample),
       obs |-> Append(s.obs,
                 [c |-> c, lfo_pos |-> g.lfo_pos, lfo_index |-> lfo_index,
                  delay_buf_pos |-> g.delay_buf_pos, delay |-> delay,
                  int_delay |-> int_delay, frac_delay |-> frac_delay,
                  in |-> in, fed |-> g.delay_last[c], stored |-> stored,
                  taps |-> IF g.interpolation = INTERP_LINEAR
                           THEN <<i0, i1>> ELSE <<i0, i1, i2>>,
                  delayed_0 |-> delayed_0, delayed |-> delayed,
                  out |-> out, sample |-> r.sample])]

\* for (c = 0; c < channels; ++c)
RECURSIVE FlowChannels(_, _, _, _)
FlowChannels(s, c, channels, ibuf) ==
  IF c >= channels THEN s
  ELSE FlowChannels(FlowChannel(s, c, ibuf), c + 1, channels, ibuf)

\* One pass of the frame loop.
FlowFrame(s, channels, ibuf) ==
  LET rotated == [s EXCEPT !.f.delay_buf_pos =
                    RotatePos(s.f.delay_buf_pos, s.f.delay_buf_length)]
      done == FlowChannels(rotated, 0, channels, ibuf)
  IN  [done EXCEPT !.f.lfo_pos = AdvanceLfo(done.f.lfo_pos, done.f.lfo_length)]

\* FlowLoop advancing the LFO cursor once per call, after the last frame.
RECURSIVE FlowLoopAdvanceOnce(_, _, _, _)
FlowLoopAdvanceOnce(s, len, channels, ibuf) ==
  IF len = 0 THEN s
  ELSE IF len = 1 THEN FlowFrame(s, channels, ibuf)
  ELSE FlowLoopAdvanceOnce([FlowFrame(s, channels, ibuf)
                              EXCEPT !.f.lfo_pos = s.f.lfo_pos],
                           len - 1, channels, ibuf)

\* while (len--)
RECURSIVE FlowLoop(_, _, _, _)
FlowLoop(s, len, channels, ibuf) ==
  IF len = 0 THEN s
  ELSE FlowLoop(FlowFrame(s, channels, ibuf), len - 1, channels, ibuf)

sox_flanger_flow(ibuf, isamp, osamp) ==
  LET len == FlowLen(isamp, osamp, effp.channels)
      s == FlowLoop([f |-> f, mem |-> heap.mem, clips |-> effp.clips,
                     nread |-> 0, obuf |-> <<>>, obs |-> <<>>],
                    len, effp.channels, ibuf)
  IN  /\ phase # "Undefined"
      /\ len = 0 \/ (f.delay_buf_length # 0 /\ f.lfo_length # 0)
      /\ f' = s.f
      /\ heap' = [heap EXCEPT !.mem = s.mem]
      /\ effp' = [effp EXCEPT !.clips = s.clips]
      /\ phase' = IF phase \in {"Ready", "Streaming"} THEN "Streaming"
                  ELSE phase
      /\ frames' = frames + len
      /\ call' = [NoCall EXCEPT !.op = "flow", !.pre = f,
                                !.heap_pre = Len(heap.mem),
                                !.isamp_in = isamp, !.osamp_in = osamp,
                                !.isamp = len * effp.channels,
                                !.osamp = len * effp.channels,
                                !.nread = s.nread, !.obuf = s.obuf,
                                !.obs = s.obs]
      /\ stream' = [stream EXCEPT
                      !.ibuf = stream.ibuf \o SubSeq(ibuf, 1, call'.nread),
                      !.obuf = stream.obuf \o call'.obuf,
                      !.obs = stream.obs \o call'.obs]

\* flow with at least one frame to process and a delay buffer or an LFO table
\* of length 0 (an instance that is not started has both): the first frame
\* takes a remainder by zero, which is undefined.  The build either traps
\* there or goes on with a value of its own; nothing is known of the
\* instance afterwards.
FlowDivideByZero(isamp, osamp) ==
  /\ phase # "Undefined"
  /\ FlowLen(isamp, osamp, effp.channels) > 0
  /\ f.delay_buf_length = 0 \/ f.lfo_length = 0
  /\ phase' = "Undefined"
  /\ \E outcome \in {"trap", "continue"} :
       call' = [NoCall EXCEPT !.op = "flow", !.ret = outcome, !.pre = f,
                              !.heap_pre = Len(heap.mem),
                              !.isamp_in = isamp, !.osamp_in = osamp]
  /\ UNCHANGED <<f, effp, heap, frames, stream>>

(***************************************************************************)
(* stop.                                                                   *)
(***************************************************************************)
\* FreeDelayBufs leaving the buffer of channel 0 allocated.
RECURSIVE FreeDelayBufsButFirst(_, _, _, _)
FreeDelayBufsButFirst(s, h, c, channels) ==
  IF c >= channels THEN h
  ELSE FreeDelayBufsButFirst(s, IF c = 0 THEN h ELSE free(h, s.delay_bufs[c]),
                             c + 1, channels)

\* for (c = 0; c < channels; ++c) free(f->delay_bufs[c]);
RECURSIVE FreeDelayBufs(_, _, _, _)
FreeDelayBufs(s, h, c, channels) ==
  IF c >= channels THEN h
  ELSE FreeDelayBufs(s, free(h, s.delay_bufs[c]), c + 1, channels)

sox_flanger_stop ==
  /\ phase \in {"Ready", "Streaming", "Stopped"}
  /\ heap' = free(FreeDelayBufs(f, heap, 0, effp.channels), f.lfo)
  /\ f' = ZeroFlanger
  /\ phase' = "Stopped"
  /\ stream' = NoStream
  /\ call' = [NoCall EXCEPT !.op = "stop", !.pre = f,
                            !.heap_pre = Len(heap.mem)]
  /\ UNCHANGED <<effp, frames>>

(***************************************************************************)
(* The host: the instances it builds, the arguments it passes and the      *)
(* buffers it hands to flow.  A host H is a record of the sets it chooses  *)
(* from: channels, rates, argvs, counts, seeds, and its bound maxFrames.   *)
(***************************************************************************)
Args(delay, depth, regen, width, speed, shape, ph, interp) ==
  <<Num(delay, 1), Num(depth, 1), Num(regen, 1), Num(width, 1), speed,
    Txt(shape), Num(ph, 1), Txt(interp)>>

\* The k-th sample of the signal seed[1] + k * seed[2], wrapped to a sample.
Signal(seed, k) ==
  ((seed[1] + k * seed[2] - SOX_SAMPLE_MIN) % (2 ^ SampleBits))
    + SOX_SAMPLE_MIN

InputBuffers(H, n) == {[k \in 1..n |-> Signal(seed, k)] : seed \in H.seeds}

HostInit(H) ==
  /\ f = ZeroFlanger
  /\ effp \in [channels : H.channels, rate : H.rates, clips : {0}]
  /\ heap = [mem |-> <<>>, live |-> {}, frees |-> <<>>]
  /\ phase = "Unconfigured"
  /\ call = NoCall
  /\ frames = 0
  /\ stream = NoStream

HostNext(H) ==
  \/ \E argv \in H.argvs : sox_flanger_getopts(argv)
  \/ sox_flanger_start
  \/ \E n \in H.counts : \E ibuf \in InputBuffers(H, n[1]) :
       /\ frames + FlowLen(n[1], n[2], effp.channels) <= H.maxFrames
       /\ sox_flanger_flow(ibuf, n[1], n[2])
  \/ \E n \in H.counts : FlowDivideByZero(n[1], n[2])
  \/ sox_flanger_stop

(***************************************************************************)
(* Spec: many configurations, few frames.  The rates are low enough that   *)
(* the tables stay small: with speed 10 they give LFO tables of 0, 1, 2,   *)
(* 3, 4 and 5 entries.  The counts <<*isamp, *osamp>> are input-bound and       *)
(* output-bound, with whole and partial frames for every channel count.    *)
(***************************************************************************)
ArgVectors ==
  {<<>>,
   <<Txt("triangle"), Txt("quadratic")>>,
   <<Num(0, 1), Num(10, 1), Num(0, 1), Num(71, 1), Num(10, 1),
     Txt("triangle")>>,
   Args(0, 0, 0, 0, Num(10, 1), "sine", 0, "linear"),
   Args(0, 0, 0, 0, Num(10, 1), "triangle", 100, "quadratic"),
   Args(10, 10, 50, 71, Num(10, 1), "triangle", 50, "linear"),
   Args(10, 10, 0, 100, Num(10, 1), "sine", 50, "quadratic"),
   Args(10, 0, -50, 0, Num(10, 1), "sine", 100, "quadratic"),
   Args(10, 0, 0, 0, Num(10, 1), "triangle", 25, "quadratic"),
   Args(0, 10, 50, 100, Num(10, 1), "triangle", 0, "quadratic"),
   <<Num(11, 1)>>,
   Args(0, 2, 0, 71, Num(1, 2), "sine", 25, "linear") \o <<Num(1, 1)>>}

Host ==
  [channels |-> 1..(MAX_CHANNELS + 1),
   rates |-> {8, 12, 28, 30, 40, 50},
   argvs |-> ArgVectors,
   counts |-> {<<0, 3>>, <<1, 1>>, <<3, 2>>, <<2, 9>>, <<4, 4>>, <<9, 8>>,
               <<8, 9>>},
   seeds |-> {<<SOX_SAMPLE_MAX, 0>>, <<SOX_SAMPLE_MIN, 3>>},
   maxFrames |-> MaxFrames]

Init == HostInit(Host)

Next == HostNext(Host)

Spec == Init /\ [][Next]_vars

(***************************************************************************)
(* SpecStream: few configurations, streamed for longer than an LFO period. *)
(***************************************************************************)
StreamHost ==
  [channels |-> 1..MAX_CHANNELS,
   rates |-> {8, 28, 30, 40},
   argvs |-> {Args(0, 0, 0, 0, Num(10, 1), "sine", 25, "linear"),
              Args(10, 10, 50, 71, Num(10, 1), "triangle", 50, "linear"),
              Args(10, 10, 0, 100, Num(10, 1), "sine", 100, "quadratic")},
   counts |-> {<<0, 3>>, <<1, 1>>, <<2, 9>>, <<3, 3>>, <<4, 4>>, <<5, 5>>,
               <<6, 9>>, <<9, 8>>, <<12, 12>>, <<16, 16>>, <<20, 20>>},
   seeds |-> {<<SOX_SAMPLE_MIN, 3>>},
   maxFrames |-> MaxStreamFrames]

StreamInit == HostInit(StreamHost)

StreamNext == HostNext(StreamHost)

SpecStream == StreamInit /\ [][StreamNext]_vars

(***************************************************************************)
(* Properties.                                                             *)
(***************************************************************************)
\* A flow call that returned.
Flowed == call.op = "flow" /\ call.ret = SOX_SUCCESS

\* The instance is started and not stopped.
Started == phase \in {"Ready", "Streaming"}

\* floor(min(i, o) / c): the number n with n * c <= min(i, o) < (n + 1) * c.
WholeFrames(i, o, c) ==
  CHOOSE n \in 0..Min(i, o) : n * c <= Min(i, o) /\ Min(i, o) < (n + 1) * c

\* C1: a flow call with input count I, output capacity O and C channels
\* processes floor(min(I, O) / C) frames, reports floor(min(I, O) / C) * C in
\* both *isamp and *osamp, and reads and writes exactly that many samples,
\* channel by channel in whole frames.
C1_FlowCounts ==
  Flowed =>
    LET C == effp.channels
        n == WholeFrames(call.isamp_in, call.osamp_in, C)
    IN  /\ call.isamp = n * C
        /\ call.osamp = n * C
        /\ call.nread = n * C
        /\ Len(call.obuf) = n * C
        /\ Len(call.obs) = n * C
        /\ \A k \in 1..Len(call.obs) : call.obs[k].c = (k - 1) % C

\* A call with more input than output capacity and a partial last frame.
C1_Witness ==
  /\ Flowed
  /\ effp.channels = 3
  /\ call.isamp_in = 9
  /\ call.osamp_in = 8
  /\ call.isamp = 6
  /\ Len(call.obuf) = 6

\* C2: start with more than MAX_CHANNELS channels fails, allocates nothing and
\* leaves every field of the instance as it was.
C2_ChannelLimit ==
  (call.op = "start" /\ effp.channels > MAX_CHANNELS) =>
    /\ call.ret = SOX_EOF
    /\ phase = "Failed"
    /\ f = call.pre
    /\ Len(heap.mem) = call.heap_pre
    /\ heap.live = {}

\* start has failed for five channels, with parameters other than the defaults.
C2_Witness ==
  /\ call.op = "start"
  /\ call.ret = SOX_EOF
  /\ effp.channels = MAX_CHANNELS + 1
  /\ f.delay_gain = Dbl(100)
  /\ f.interpolation = INTERP_QUADRATIC

\* C3: while the instance is started, both cursors are inside their tables.
C3_CursorsInRange ==
  Started =>
    /\ 0 <= f.delay_buf_pos /\ f.delay_buf_pos < f.delay_buf_length
    /\ 0 <= f.lfo_pos /\ f.lfo_pos < f.lfo_length

\* C4: the LFO cursor advances by one modulo lfo_length per processed frame,
\* whatever the channel count and however the frames are split among calls:
\* after N frames it is N mod lfo_length, and a call of lfo_length frames
\* leaves it where it was.
C4_LfoPeriodic ==
  /\ (Started /\ frames > 0) => f.lfo_pos = frames % f.lfo_length
  /\ (Flowed /\ call.obs # <<>>) =>
       LET C == effp.channels
           L == f.lfo_length
           n == Len(call.obs) \div C
       IN  /\ \A k \in 1..Len(call.obs) :
                call.obs[k].lfo_pos = (call.pre.lfo_pos + (k - 1) \div C) % L
           /\ f.lfo_pos = (call.pre.lfo_pos + n) % L
           /\ n = L => f.lfo_pos = call.pre.lfo_pos

\* A call of exactly one period that starts in mid-table.
C4_Witness ==
  /\ Flowed
  /\ effp.channels = 2
  /\ f.lfo_length = 3
  /\ Len(call.obs) = 6
  /\ call.pre.lfo_pos = 1
  /\ f.lfo_pos = 1

\* A step after getopts has succeeded keeps every stored parameter.
ParamsUnchangedStep ==
  phase \in {"Configured", "Ready", "Streaming", "Stopped"}
    => Params(f') = Params(f)

\* C5 as stated: once getopts has succeeded, no operation (start, flow,
\* stop) changes a stored parameter.
C5_ParamsNeverChange == [][ParamsUnchangedStep]_vars

\* What each operation does to the stored parameters.
ParamsKeptStep ==
  /\ (Started /\ phase' = "Streaming") => Params(f') = Params(f)
  /\ (phase = "Configured" /\ phase' = "Failed") => f' = f
  /\ (phase = "Configured" /\ phase' = "Ready") =>
       /\ \A k \in {"delay_min", "delay_depth", "speed", "wave_shape",
                    "interpolation"} : f'[k] = f[k]
       /\ RMul(f'.feedback_gain, Dbl(100)) = f.feedback_gain
       /\ RMul(f'.channel_phase, Dbl(100)) = f.channel_phase
  /\ phase' = "Stopped" => f' = ZeroFlanger

\* C5 as amended: flow changes no parameter; a failing start changes none; a
\* successful start keeps delay_min, delay_depth, speed, wave_shape and
\* interpolation and divides feedback_gain and channel_phase by 100; stop
\* zeroes the instance.
C5_ParamsKept == [][ParamsKeptStep]_vars

\* Frames have been processed with parameters that start has rescaled.
C5_Witness ==
  /\ phase = "Streaming"
  /\ frames > 0
  /\ f.feedback_gain = Half
  /\ f.channel_phase = Half
  /\ f.delay_min = Dbl(10)
  /\ f.delay_gain # Dbl(71)

\* C6: with depth 0, feedback 0 and mix 0, start leaves in_gain 1 and a wet
\* gain of 0, every output sample equals its input sample and no sample is
\* clipped.
C6_Passthrough ==
  /\ (/\ call.op = "start" /\ call.ret = SOX_SUCCESS
      /\ call.pre.delay_depth = Zero
      /\ call.pre.feedback_gain = Zero
      /\ call.pre.delay_gain = Zero) =>
       f.in_gain = Dbl(1) /\ f.delay_gain = Zero
  /\ (/\ Started
      /\ f.delay_depth = Zero /\ f.feedback_gain = Zero
      /\ f.delay_gain = Zero) =>
       /\ f.in_gain = Dbl(1)
       /\ effp.clips = 0
       /\ Flowed =>
            \A k \in 1..Len(call.obs) :
              /\ call.obuf[k] = call.obs[k].in
              /\ call.obs[k].out = Dbl(call.obs[k].in)

\* A passthrough instance whose delay line hands back the sample before.
C6_Witness ==
  /\ Flowed
  /\ effp.channels = 1
  /\ f.delay_depth = Zero /\ f.feedback_gain = Zero /\ f.delay_gain = Zero
  /\ f.interpolation = INTERP_QUADRATIC
  /\ Len(call.obs) = 2
  /\ call.obs[2].int_delay = 1
  /\ call.obs[2].delayed # Zero
  /\ call.obuf[2] = SOX_SAMPLE_MAX

\* The integer nearest to x >= 0 (the larger one of two).
Nearest(x) ==
  CHOOSE n \in 0..(x[1] \div x[2] + 1) :
    /\ 2 * (n * x[2] - x[1]) <= x[2]
    /\ 2 * (x[1] - n * x[2]) < x[2]

\* The largest integer not above x >= 0.
FloorOf(x) ==
  CHOOSE n \in 0..(x[1] \div x[2]) : n * x[2] <= x[1] /\ x[1] < (n + 1) * x[2]

\* (delay_min + delay_depth) / 1000 * rate, the swept delay in samples.
DelaySamples == RDiv(RMul(RAdd(f.delay_min, f.delay_depth), Dbl(effp.rate)),
                     Dbl(1000))

\* C7 as stated: both lengths are rounded to the nearest integer.
C7_SizesRounded ==
  Started =>
    /\ f.delay_buf_length = Nearest(DelaySamples) + 2
    /\ f.lfo_length = Nearest(RDiv(Dbl(effp.rate), f.speed))

\* C7 as amended: delay_buf_length is round((delay_min + delay_depth) / 1000
\* * rate) + 2 and lfo_length is rate / speed rounded down; 44100 Hz with
\* delay 0, depth 2 and speed 0.5 gives 90 and 88200.
C7_Sizes ==
  /\ Started =>
       /\ f.delay_buf_length = Nearest(DelaySamples) + 2
       /\ f.lfo_length = FloorOf(RDiv(Dbl(effp.rate), f.speed))
  /\ DelayBufLength(Zero, Dbl(2), 44100) = 90
  /\ LfoLength(44100, Half) = 88200

\* 28 Hz at speed 10: 2.8 periods give a table of 2 entries, and 0.56
\* samples of delay a buffer of 1 + 2.
C7_Witness ==
  /\ phase = "Ready"
  /\ effp.rate = 28
  /\ f.speed = Dbl(10)
  /\ f.lfo_length = 2
  /\ f.delay_min = Dbl(10) /\ f.delay_depth = Dbl(10)
  /\ f.delay_buf_length = 3

\* C8 as stated: a delay buffer has at least 3 entries.
C8_LengthAtLeast3 == Started => f.delay_buf_length >= 3

\* C8 as amended: a delay buffer has at least 2 entries, and exactly 2 when
\* the swept delay is less than half a sample.
C8_LengthAtLeast2 ==
  Started =>
    /\ f.delay_buf_length >= 2
    /\ f.delay_buf_length = 2 <=> RLt(DelaySamples, Half)

\* No delay and no depth: a buffer of 2 entries.
C8_Witness ==
  /\ phase = "Ready"
  /\ f.delay_min = Zero /\ f.delay_depth = Zero
  /\ f.delay_buf_length = 2

\* C9: with a channel phase of 0 or of 100 percent every channel reads the
\* LFO table at channel 0's index, in every frame of a period.
C9_SamePhase ==
  (Started /\ f.channel_phase \in {Zero, Dbl(1)}) =>
    /\ \A pos \in 0..(f.lfo_length - 1) : \A c \in 0..(MAX_CHANNELS - 1) :
         LfoIndex(pos, c, f.lfo_length, f.channel_phase)
           = LfoIndex(pos, 0, f.lfo_length, f.channel_phase)
    /\ Flowed =>
         \A k \in 1..Len(call.obs) :
           /\ call.obs[k].lfo_index = call.obs[k - call.obs[k].c].lfo_index
           /\ call.obs[k].delay = call.obs[k - call.obs[k].c].delay

\* Four channels at 100 percent, in the second frame.
C9_Witness ==
  /\ Flowed
  /\ effp.channels = MAX_CHANNELS
  /\ f.channel_phase = Dbl(1)
  /\ f.lfo_length >= 3
  /\ Len(call.obs) = 2 * MAX_CHANNELS
  /\ call.obs[2 * MAX_CHANNELS].lfo_index = 1

\* The offset of channel 1 from channel 0 in each frame of a 2-channel call.
PhaseOffsets ==
  {(call.obs[k].lfo_index - call.obs[k - 1].lfo_index) % f.lfo_length :
     k \in {j \in 1..Len(call.obs) : call.obs[j].c = 1}}

\* C10 as stated: with a channel phase of 50 percent and 2 channels, channel
\* 1 reads half a table away from channel 0, whatever the table length.
C10_HalfTable ==
  (Flowed /\ effp.channels = 2 /\ f.channel_phase = Half) =>
    \A d \in PhaseOffsets : 2 * d = f.lfo_length

\* C10 as amended: channel 1 reads round(lfo_length / 2) modulo lfo_length
\* away from channel 0: half a table when the length is even, half an entry
\* more when it is odd.
C10_RoundedHalfTable ==
  (Flowed /\ effp.channels = 2 /\ f.channel_phase = Half) =>
    \A d \in PhaseOffsets :
      /\ \E h \in 0..f.lfo_length :
           /\ 2 * h \in {f.lfo_length, f.lfo_length + 1}
           /\ d = h % f.lfo_length
      /\ f.lfo_length % 2 = 0 => 2 * d = f.lfo_length

\* A table of 3 entries: channel 1 reads 2 entries ahead.
C10_Witness ==
  /\ Flowed
  /\ effp.channels = 2
  /\ f.channel_phase = Half
  /\ f.lfo_length = 3
  /\ Len(call.obs) = 4
  /\ call.obs[3].lfo_index = 1
  /\ call.obs[4].lfo_index = 0

\* The blocks start has allocated for the instance s.
Blocks(s) == {s.delay_bufs[c] : c \in 0..(effp.channels - 1)} \cup {s.lfo}

\* C11: stop after a successful start frees each delay buffer and the LFO
\* table exactly once and leaves every field of the instance zero; a further
\* stop on the zeroed instance frees nothing again; no block is ever freed
\* twice.
C11_StopFreesOnce ==
  /\ \A p \in 1..Len(heap.frees) : heap.frees[p] <= 1
  /\ call.op = "stop" =>
       /\ f = ZeroFlanger
       /\ heap.live = {}
       /\ Len(heap.mem) = effp.channels + 1
       /\ \A p \in 1..Len(heap.frees) : heap.frees[p] = 1
  /\ (call.op = "stop" /\ call.pre # ZeroFlanger) =>
       /\ Blocks(call.pre) = 1..Len(heap.mem)
       /\ NULL \notin Blocks(call.pre)

\* The second stop of an instance of four channels that has streamed.
C11_Witness ==
  /\ call.op = "stop"
  /\ call.pre = ZeroFlanger
  /\ phase = "Stopped"
  /\ effp.channels = MAX_CHANNELS
  /\ frames > 0
  /\ Len(heap.frees) = MAX_CHANNELS + 1

\* C12: a start that computes an LFO table length of 0 fails, so no started
\* instance has lfo_length = 0 and flow takes no remainder by a zero
\* lfo_length.
C12_EmptyTableRejected ==
  /\ (call.op = "start" /\ LfoLength(effp.rate, call.pre.speed) = 0) =>
       call.ret = SOX_EOF /\ phase = "Failed"
  /\ phase \in {"Ready", "Streaming"} => f.lfo_length # 0
  /\ (phase = "Undefined" /\ call.pre.delay_buf_length # 0) =>
       call.pre.lfo_length # 0

\* A flow call that is given at least one whole frame while the instance is
\* not started changes nothing and returns.
FlowGuardedStep ==
  (/\ phase \notin {"Ready", "Streaming"}
   /\ call'.op = "flow"
   /\ FlowLen(call'.isamp_in, call'.osamp_in, effp.channels) > 0) =>
    /\ call'.ret \in {SOX_SUCCESS, SOX_EOF}
    /\ f' = f /\ heap' = heap /\ effp' = effp /\ phase' = phase

\* C13: flow with at least one whole frame on an instance that is not Ready
\* or Streaming (before a successful start, after a failed start, after
\* stop) is rejected or does nothing: it changes no state and indexes no
\* table.
C13_FlowGuarded == [][FlowGuardedStep]_vars

\* C14: the write cursor is decremented by one modulo delay_buf_length once
\* per frame, before the channels of the frame, and all channels of a frame
\* write at the same slot and read relative to it; after N frames it is
\* (initial - N) mod delay_buf_length.
C14_RotateOncePerFrame ==
  /\ Started =>
       (f.delay_buf_pos + frames) % f.delay_buf_length = 0
  /\ (Flowed /\ call.obs # <<>>) =>
       LET C == effp.channels
           L == f.delay_buf_length
       IN  /\ \A k \in 1..Len(call.obs) :
                LET o == call.obs[k]
                IN  /\ (o.delay_buf_pos + (k - 1) \div C + 1) % L
                         = call.pre.delay_buf_pos
                    /\ o.delay_buf_pos = call.obs[k - o.c].delay_buf_pos
                    /\ o.taps[1] = (o.delay_buf_pos + o.int_delay) % L
           /\ (f.delay_buf_pos + Len(call.obs) \div C) % L
                = call.pre.delay_buf_pos
           /\ f.delay_buf_pos = call.obs[Len(call.obs)].delay_buf_pos

\* A call of three frames that starts at slot 1 of three and wraps.
C14_Witness ==
  /\ Flowed
  /\ effp.channels = 2
  /\ f.delay_buf_length = 3
  /\ call.pre.delay_buf_pos = 1
  /\ Len(call.obs) = 6
  /\ call.obs[3].delay_buf_pos = 2
  /\ f.delay_buf_pos = 1

\* C15: the value written to the delay line is in + feedback_gain *
\* delay_last[c], where delay_last[c] is the delayed sample of channel c in
\* the frame before (also across flow calls, and 0 before the first frame);
\* it is written before the taps are read, and delay_last[c] then becomes
\* this frame's delayed sample.
C15_FeedbackWrite ==
  /\ phase = "Ready" =>
       \A c \in 0..(MAX_CHANNELS - 1) : f.delay_last[c] = Zero
  /\ Started =>
       LET C == effp.channels
           N == Len(stream.obs)
       IN  /\ \A k \in 1..N :
                LET o == stream.obs[k]
                IN  /\ o.fed = IF k > C THEN stream.obs[k - C].delayed
                               ELSE Zero
                    /\ o.stored
                         = RAdd(Dbl(o.in), RMul(f.feedback_gain, o.fed))
                    /\ o.taps[1] = o.delay_buf_pos => o.delayed_0 = o.stored
           /\ \A k \in {j \in 1..N : j > N - C} :
                LET o == stream.obs[k]
                IN  /\ f.delay_last[o.c] = o.delayed
                    /\ heap.mem[f.delay_bufs[o.c]][f.delay_buf_pos + 1]
                         = o.stored

\* The second of two calls, which feeds back what the first has left.
C15_Witness ==
  /\ Flowed
  /\ f.feedback_gain = Half
  /\ Len(stream.obs) > Len(call.obs)
  /\ call.obs # <<>>
  /\ call.pre.delay_last[0] # Zero
  /\ call.obs[1].fed = call.pre.delay_last[0]
  /\ call.obs[1].stored # Dbl(call.obs[1].in)

\* What one flow call makes of the instance g with memory mem and of the
\* whole frames of ibuf.
OneCall(g, mem, ibuf) ==
  FlowLoop([f |-> g, mem |-> mem, clips |-> 0, nread |-> 0, obuf |-> <<>>,
            obs |-> <<>>],
           Len(ibuf) \div effp.channels, effp.channels, ibuf)

\* Every entry of the LFO table of the started instance is an integer.
IntegralLfo ==
  \A t \in 1..stream.f.lfo_length : stream.mem[stream.f.lfo][t][2] = 1

\* The other interpolation.
OtherInterp(i) == IF i = INTERP_LINEAR THEN INTERP_QUADRATIC ELSE INTERP_LINEAR

\* The values the delay buffers hold.
TapValues ==
  {heap.mem[f.delay_bufs[c]][i] :
     c \in 0..(effp.channels - 1), i \in 1..f.delay_buf_length}

\* C16: when the delay read from the LFO table has no fractional part the
\* delayed sample is tap 0, in linear and in quadratic mode and whatever the
\* taps hold (the taps read, and the values of the delay buffers taken two
\* at a time); and an instance whose LFO table holds integers only gives the
\* same output and the same delay line contents as its twin with the other
\* interpolation.
C16_IntegralDelay ==
  Started =>
    /\ \A k \in 1..Len(stream.obs) :
         LET o == stream.obs[k]
         IN  /\ k > Len(stream.obs) - effp.channels =>
                  o.delayed_0 = heap.mem[f.delay_bufs[o.c]][o.taps[1] + 1]
             /\ o.frac_delay = Zero => o.delayed = o.delayed_0
    /\ \A t0 \in TapValues, t1 \in TapValues :
         /\ InterpLinear(t0, t1, Zero) = t0
         /\ InterpQuadratic(t0, t1, t0, Zero) = t0
         /\ InterpQuadratic(t0, t1, t1, Zero) = t0
         /\ InterpQuadratic(t0, t0, t1, Zero) = t0
    /\ IntegralLfo =>
         LET twin == OneCall([stream.f EXCEPT !.interpolation
                                = OtherInterp(stream.f.interpolation)],
                             stream.mem, stream.ibuf)
         IN  /\ twin.obuf = stream.obuf
             /\ twin.mem = heap.mem
             /\ twin.f.delay_last = f.delay_last
             /\ twin.f.interpolation # f.interpolation

\* Two frames with a whole delay of one sample, feedback and taps that
\* differ.
C16_Witness ==
  /\ Started
  /\ IntegralLfo
  /\ f.feedback_gain # Zero
  /\ Len(stream.obs) = 2
  /\ stream.obs[2].int_delay = 1
  /\ stream.obs[2].frac_delay = Zero
  /\ stream.obs[2].delayed # Zero
  /\ stream.obs[2].delayed # stream.obs[2].stored

\* in_gain + delay_gain of the started instance.
GainSum == RAdd(f.in_gain, f.delay_gain)

\* The gains start leaves are those of the formulas, for the mix percentage
\* m and the feedback percentage fb that getopts stored.
GainFormulas(m, fb) ==
  /\ f.in_gain = RDiv(Dbl(100), RAdd(Dbl(100), m))
  /\ f.feedback_gain = RDiv(fb, Dbl(100))
  /\ f.delay_gain = RMul(RDiv(m, RAdd(Dbl(100), m)),
                         RDiv(RSub(Dbl(100), Fabs(fb)), Dbl(100)))
  /\ RLt(Zero, f.in_gain)
  /\ RLe(Zero, f.delay_gain)
  /\ RLe(GainSum, Dbl(1))

\* BalanceGains for feedback 50 and mix 71 gives 1/1.71 and 0.71/1.71 * 0.5.
GainExample ==
  LET g == BalanceGains([ZeroFlanger EXCEPT !.feedback_gain = Dbl(50),
                                            !.delay_gain = Dbl(71)])
  IN  /\ g.in_gain = Rat(100, 171)
      /\ g.delay_gain = RMul(Rat(71, 171), Half)

\* C17 as stated: the gains follow the formulas, and in_gain + wet gain is 1
\* exactly when the feedback is 0.
C17_GainsSumOneIffNoFeedback ==
  (call.op = "start" /\ call.ret = SOX_SUCCESS) =>
    /\ GainFormulas(call.pre.delay_gain, call.pre.feedback_gain)
    /\ GainExample
    /\ GainSum = Dbl(1) <=> call.pre.feedback_gain = Zero

\* C17 as amended: the gains follow the formulas, and in_gain + wet gain is 1
\* exactly when the feedback or the mix is 0.
C17_Gains ==
  (call.op = "start" /\ call.ret = SOX_SUCCESS) =>
    /\ GainFormulas(call.pre.delay_gain, call.pre.feedback_gain)
    /\ GainExample
    /\ GainSum = Dbl(1) <=>
         (call.pre.feedback_gain = Zero \/ call.pre.delay_gain = Zero)

\* start with feedback -50 and mix 0: the gains sum to 1.
C17_Witness ==
  /\ call.op = "start"
  /\ call.ret = SOX_SUCCESS
  /\ call.pre.feedback_gain = Dbl(-50)
  /\ call.pre.delay_gain = Zero
  /\ f.in_gain = Dbl(1)
  /\ f.feedback_gain = RNeg(Half)

\* The entries of the LFO table of the started instance.
LfoValues == {heap.mem[f.lfo][t] : t \in 1..f.lfo_length}

\* The number of taps the interpolation reads.
Taps == IF f.interpolation = INTERP_LINEAR THEN 2 ELSE 3

\* C18 as stated: the LFO values are within [0, delay_buf_length - 2] and
\* every tap offset is at most delay_buf_length - 1, so that the taps
\* address distinct slots and no tap wraps around to the write position.
C18_TapsNeverWrap ==
  Started =>
    /\ \A d \in LfoValues :
         /\ RLe(Zero, d) /\ RLe(d, Dbl(f.delay_buf_length - 2))
         /\ Trunc(d) + Taps - 1 <= f.delay_buf_length - 1
    /\ \A k \in 1..Len(stream.obs) :
         LET o == stream.obs[k]
         IN  /\ o.int_delay + Len(o.taps) - 1 <= f.delay_buf_length - 1
             /\ Cardinality({o.taps[i] : i \in 1..Len(o.taps)}) = Len(o.taps)
             /\ \A i \in 2..Len(o.taps) : o.taps[i] # o.delay_buf_pos

\* C18 as amended: the LFO values are within [0, delay_buf_length - 2]; the
\* two taps of the linear interpolator never wrap to the write position; the
\* third tap of the quadratic interpolator wraps to it exactly when the
\* delay is delay_buf_length - 2, a whole number, and then the delayed sample
\* is tap 0 alone.
C18_TapsFit ==
  Started =>
    /\ \A d \in LfoValues :
         /\ RLe(Zero, d) /\ RLe(d, Dbl(f.delay_buf_length - 2))
         /\ Trunc(d) + 1 <= f.delay_buf_length - 1
         /\ Trunc(d) + 2 > f.delay_buf_length - 1
              <=> d = Dbl(f.delay_buf_length - 2)
    /\ \A k \in 1..Len(stream.obs) :
         LET o == stream.obs[k]
         IN  /\ o.int_delay + 1 <= f.delay_buf_length - 1
             /\ o.taps[1] # o.taps[2]
             /\ o.taps[2] # o.delay_buf_pos
             /\ Len(o.taps) = 3 =>
                  IF o.delay = Dbl(f.delay_buf_length - 2)
                  THEN /\ o.taps[3] = o.delay_buf_pos
                       /\ o.frac_delay = Zero
                       /\ o.delayed = o.delayed_0
                  ELSE /\ o.int_delay + 2 <= f.delay_buf_length - 1
                       /\ o.taps[3] \notin {o.taps[1], o.taps[2],
                                             o.delay_buf_pos}

\* A quadratic frame at the maximum delay of one sample in a buffer of three
\* slots: the third tap is the slot just written.
C18_Witness ==
  /\ Started
  /\ f.interpolation = INTERP_QUADRATIC
  /\ f.delay_buf_length = 3
  /\ Len(stream.obs) >= 1
  /\ stream.obs[1].int_delay = 1
  /\ stream.obs[1].taps[3] = stream.obs[1].delay_buf_pos
  /\ stream.obs[1].stored # Zero

\* C19: the frames the instance has processed since start, in however many
\* flow calls, give the output and leave the instance (delay buffers,
\* cursors, delay_last) as one flow call on all of them does.
C19_BatchIndependent ==
  Started =>
    LET one == OneCall(stream.f, stream.mem, stream.ibuf)
    IN  /\ one.nread = Len(stream.ibuf)
        /\ one.obuf = stream.obuf
        /\ one.obs = stream.obs
        /\ one.f = f
        /\ one.mem = heap.mem
        /\ one.clips = effp.clips

\* Five frames of two channels with feedback, the last two in a call of
\* their own, over a table of three entries.
C19_Witness ==
  /\ Flowed
  /\ effp.channels = 2
  /\ f.feedback_gain = Half
  /\ f.lfo_length = 3
  /\ Len(stream.obs) = 10
  /\ Len(call.obs) = 4
  /\ f.lfo_pos = 2
  /\ f.delay_last[1] # Zero

\* ibuf with the samples of every channel but c replaced by others.
OtherChannelsChanged(ibuf, c) ==
  [k \in 1..Len(ibuf) |->
     IF (k - 1) % effp.channels = c THEN ibuf[k] ELSE -ibuf[k] - 1]

\* The instance and memory after the body of the channel loop for channel c
\* on the sample x.
ChannelStep(c, x) ==
  FlowChannel([f |-> f, mem |-> heap.mem, clips |-> effp.clips, nread |-> 0,
               obuf |-> <<>>, obs |-> <<>>], c, <<x>>)

\* C20: a run whose input agrees on channel c and differs on all other
\* channels gives the same output samples, delay buffer and delay_last for
\* channel c and the same cursors; and the body of the channel loop for
\* channel c changes nothing of the instance but delay_bufs[c]'s contents and
\* delay_last[c].
C20_ChannelsIndependent ==
  Started =>
    \A c \in 0..(effp.channels - 1) :
      /\ LET alt == OneCall(stream.f, stream.mem,
                            OtherChannelsChanged(stream.ibuf, c))
         IN  /\ \A k \in 1..Len(stream.obs) :
                  stream.obs[k].c = c =>
                    /\ alt.obuf[k] = stream.obuf[k]
                    /\ alt.obs[k] = stream.obs[k]
             /\ alt.mem[f.delay_bufs[c]] = heap.mem[f.delay_bufs[c]]
             /\ alt.f.delay_last[c] = f.delay_last[c]
             /\ alt.f.delay_buf_pos = f.delay_buf_pos
             /\ alt.f.lfo_pos = f.lfo_pos
      /\ f.lfo_length # 0 =>
           \A x \in {SOX_SAMPLE_MIN, SOX_SAMPLE_MAX} :
             LET r == ChannelStep(c, x)
             IN  /\ [r.f EXCEPT !.delay_last[c] = f.delay_last[c]] = f
                 /\ \A p \in 1..Len(heap.mem) :
                      p # f.delay_bufs[c] => r.mem[p] = heap.mem[p]

\* Four channels with feedback, four frames, the other channels' samples
\* not those of channel 1.
C20_Witness ==
  /\ Started
  /\ effp.channels = MAX_CHANNELS
  /\ f.feedback_gain = Half
  /\ Len(stream.obs) = 4 * MAX_CHANNELS
  /\ f.delay_last[1] # Zero
  /\ f.delay_last[1] # f.delay_last[0]
  /\ stream.obuf[2] # 0
=============================================================================
